---- MODULE Spec2Model ----
(***************************************************************************)
(* Model of the Symmetry token-swap quote engine                           *)
(* (jupiter-core/src/amms/symmetry_token_swap.rs).                         *)
(*                                                                         *)
(* Machine integers.  The source computes on u64 with a u128 intermediate  *)
(* inside mul_div.  TLC's integers are 32 bits wide, so the machine word   *)
(* of the model is WordBits bits wide (WordMax plays u64::MAX) and the     *)
(* double-width product of mul_div is never formed: its quotient is        *)
(* computed exactly by double-and-add (WideDiv).  Every other operation    *)
(* of the source that is a plain +, -, * on u64 is modelled by a wrapping  *)
(* operator together with its overflow condition; a build with overflow    *)
(* checks panics there, a build without them wraps.                        *)
(*                                                                         *)
(* Arrays are functions over 0..N-1, as they are indexed in the source.    *)
(***************************************************************************)
EXTENDS Integers, Sequences, FiniteSets, TLC

VARIABLES
    fund_state,     \* SymmetryTokenSwap.fund_state
    token_list,     \* SymmetryTokenSwap.token_list
    curve_data,     \* SymmetryTokenSwap.curve_data
    quote_params,   \* the request of the quote() call last made
    quote_result,   \* what that call returned (or that it panicked)
    call,           \* a call of one of the pure helpers, with its result
    loop            \* the loop state of a curve integrator, between iterations

vars == <<fund_state, token_list, curve_data, quote_params, quote_result, call, loop>>

----------------------------------------------------------------------------
(* Bounds of the model *)

\* Width of the machine word (the source's u64 is 64 bits wide).
WordBits == 29

----------------------------------------------------------------------------
(* Constants of crate::amms::accounts (imported at line 14) *)

BPS_DIVIDER == 10000
WEIGHT_MULTIPLIER == 10000
USE_CURVE_DATA == 1
FUND_LP_DISABLED == 1

----------------------------------------------------------------------------
(* u64 arithmetic *)

RECURSIVE Pow2(_)
Pow2(n) == IF n = 0 THEN 1 ELSE 2 * Pow2(n - 1)

\* u64::MAX
WordMax == Pow2(WordBits) - 1

Min(a, b) == IF a < b THEN a ELSE b

\* The largest integer TLC computes with
MaxInt == (Pow2(30) - 1) + Pow2(30)

\* a + b on u64: the wrapped sum, and whether it overflows
WrapAdd(a, b) == (a + b) % (WordMax + 1)
AddOvf(a, b) == a + b > WordMax

\* a - b on u64: the wrapped difference, and whether it underflows
WrapSub(a, b) == ((a - b) + (WordMax + 1)) % (WordMax + 1)
SubOvf(a, b) == a < b

\* 2 * h + x on u64, wrapped
WrapDouble(h, x) == (((2 * h) % (WordMax + 1)) + x) % (WordMax + 1)

\* a * b on u64, wrapped; the product itself may not fit a TLC integer
RECURSIVE WrapMul(_, _)
WrapMul(a, b) ==
    IF b = 0 THEN 0
    ELSE WrapDouble(WrapMul(a, b \div 2), IF b % 2 = 1 THEN a ELSE 0)
MulOvf(a, b) == a # 0 /\ b > WordMax \div a

\* a saturated just above u64::MAX
Sat(a) == IF a > WordMax THEN WordMax + 1 ELSE a

\* 2 * q, saturated
SatDouble(q) == IF q > WordMax \div 2 THEN WordMax + 1 ELSE 2 * q

\* <<q, r>> with the remainder r < 2 * c brought below c
WideCarry(q, r, c) == <<Sat(q + (r \div c)), r % c>>

\* <<q, r>> + x / c, for r < c
WideAdd(q, r, x, c) == WideCarry(Sat(q + (x \div c)), r + (x % c), c)

\* One more bit of the multiplier: from qr = <<q, r>> with a * m = q * c + r
\* to <<q', r'>> with a * (2 * m + bit) = q' * c + r'; a quotient that has
\* saturated just above u64::MAX stays there
WideStep(qr, a, c, bit) ==
    IF qr[1] > WordMax THEN qr
    ELSE WideAdd(Sat(SatDouble(qr[1]) + ((2 * qr[2]) \div c)), (2 * qr[2]) % c,
                 IF bit = 1 THEN a ELSE 0, c)

\* <<q, r>> with a * b = q * c + r and 0 <= r < c, for c > 0; q saturates
\* just above u64::MAX (and then r no longer matters).  This is the u128
\* quotient (a as u128 * b as u128) / c of mul_div, which always exists: the
\* u128 product cannot overflow.
RECURSIVE WideDiv(_, _, _)
WideDiv(a, b, c) ==
    IF b = 0 THEN <<0, 0>>
    ELSE WideStep(WideDiv(a, b \div 2, c), a, c, b % 2)

\* (a as u128 * b as u128) / c, for c > 0, saturated just above u64::MAX.
\* The product is formed directly where a TLC integer can hold it, and
\* bit by bit over the smaller factor otherwise.
WideQuot(a, b, c) ==
    IF a = 0 \/ b <= MaxInt \div a
    THEN Sat((a * b) \div c)
    ELSE IF a < b THEN WideDiv(b, a, c)[1] ELSE WideDiv(a, b, c)[1]

\* A saturating narrowing, as a cast that clamps would do
NarrowSaturating(q) == IF q > WordMax THEN WordMax ELSE q

\* try_into().unwrap_or_default(): a quotient that does not fit u64 becomes 0
Narrow(q) == IF q > WordMax THEN 0 ELSE q

\* SymmetryTokenSwap::mul_div
mul_div(a, b, c) == IF c = 0 THEN 0 ELSE Narrow(WideQuot(a, b, c))

\* The powers of ten a TLC integer holds: PowersOfTen[d + 1] = 10^d
PowersOfTen == <<1, 10, 100, 1000, 10000, 100000, 1000000, 10000000, 100000000, 1000000000>>

\* u64::pow(10, decimals), wrapped, and whether it overflows
RECURSIVE Pow10(_)
Pow10(d) ==
    IF d < Len(PowersOfTen) THEN PowersOfTen[d + 1] % (WordMax + 1)
    ELSE WrapMul(Pow10(d - 1), 10)
Pow10Ovf(d) == d >= Len(PowersOfTen) \/ PowersOfTen[d + 1] > WordMax

\* SymmetryTokenSwap::amount_to_usd_value
amount_to_usd_value(amount, decimals, price) ==
    mul_div(amount, price, Pow10(decimals))

\* The conversion with its scale and price taken one for the other
UsdValueToAmountSwapped(worth, decimals, price) == mul_div(worth, price, Pow10(decimals))

\* SymmetryTokenSwap::usd_value_to_amount
usd_value_to_amount(worth, decimals, price) ==
    mul_div(worth, Pow10(decimals), price)

----------------------------------------------------------------------------
(* Bounds of the curve tables *)

\* Number of points of a curve (accounts::NUM_OF_POINTS_IN_CURVE_DATA)
NUM_OF_POINTS_IN_CURVE_DATA == 2

----------------------------------------------------------------------------
(* compute_value_of_sold_token, one loop iteration at a time.                *)
(* Every operator below takes the locals computed so far as parameters and   *)
(* hands them, with the next ones, to the operator of the following lines.   *)

\* The locals of compute_value_of_sold_token before the loop (lines 112-116).
\* The fields from amount_in_interval on record what the last iteration
\* computed; ovf records that a plain u64 operation overflowed so far.
SellInit(amount, price, start_amount, target_amount) ==
    [ step                 |-> 0,
      done                 |-> FALSE,
      current_amount       |-> start_amount,
      curve_offset         |-> IF start_amount > target_amount
                               THEN start_amount - target_amount ELSE 0,
      current_output_value |-> 0,
      amount_left          |-> amount,
      current_price        |-> price.sell_price,
      skipped              |-> FALSE,
      amount_in_interval   |-> 0,
      amount_before_tw     |-> 0,
      amount_after_tw      |-> 0,
      fees                 |-> 0,
      ovf                  |-> FALSE ]

\* Lines 152-155: the segment is accounted for
SellAccumulate(s, current_price, amount_in_interval, amount_before_tw, value_before_tw, value_after_tw, fee_before, fee_after) ==
    [ step                 |-> s.step + 1,
      done                 |-> \/ s.step + 1 > NUM_OF_POINTS_IN_CURVE_DATA
                               \/ s.amount_left - amount_in_interval = 0,
      current_amount       |-> WrapAdd(s.current_amount, amount_in_interval),
      curve_offset         |-> 0,
      current_output_value |->
          WrapAdd(s.current_output_value,
                  WrapSub(WrapAdd(value_before_tw, value_after_tw),
                          WrapAdd(fee_before, fee_after))),
      amount_left          |-> s.amount_left - amount_in_interval,
      current_price        |-> current_price,
      skipped              |-> FALSE,
      amount_in_interval   |-> amount_in_interval,
      amount_before_tw     |-> amount_before_tw,
      amount_after_tw      |-> amount_in_interval - amount_before_tw,
      fees                 |-> WrapAdd(fee_before, fee_after),
      ovf                  |->
          \/ s.ovf
          \/ AddOvf(fee_before, fee_after)
          \/ AddOvf(value_before_tw, value_after_tw)
          \/ SubOvf(WrapAdd(value_before_tw, value_after_tw),
                    WrapAdd(fee_before, fee_after))
          \/ AddOvf(s.current_output_value,
                    WrapSub(WrapAdd(value_before_tw, value_after_tw),
                            WrapAdd(fee_before, fee_after)))
          \/ AddOvf(s.current_amount, amount_in_interval) ]

\* Both parts of the segment charged at the tier before the target
SellFeesBeforeTier(s, token_settings, current_price, amount_in_interval, amount_before_tw, value_before_tw, value_after_tw) ==
    SellAccumulate(s, current_price, amount_in_interval, amount_before_tw,
        value_before_tw, value_after_tw,
        mul_div(value_before_tw, token_settings.token_swap_fee_before_tw_bps, BPS_DIVIDER),
        mul_div(value_after_tw, token_settings.token_swap_fee_before_tw_bps, BPS_DIVIDER))

\* Lines 149-151: the fee of each part of the segment, at its own tier
SellFees(s, token_settings, current_price, amount_in_interval, amount_before_tw, value_before_tw, value_after_tw) ==
    SellAccumulate(s, current_price, amount_in_interval, amount_before_tw,
        value_before_tw, value_after_tw,
        mul_div(value_before_tw, token_settings.token_swap_fee_before_tw_bps, BPS_DIVIDER),
        mul_div(value_after_tw, token_settings.token_swap_fee_after_tw_bps, BPS_DIVIDER))

\* Lines 138-148: the two parts of the segment, valued at the segment's price
SellValues(s, token_settings, current_price, amount_in_interval, amount_before_tw) ==
    SellFees([s EXCEPT !.ovf = @ \/ Pow10Ovf(token_settings.decimals)],
        token_settings, current_price, amount_in_interval, amount_before_tw,
        amount_to_usd_value(amount_before_tw, token_settings.decimals, current_price),
        amount_to_usd_value(amount_in_interval - amount_before_tw,
                            token_settings.decimals, current_price))

\* The split that takes the whole segment as sold before the target
SellBeforeTwWhole(current_amount, amount_in_interval, target_amount) == amount_in_interval

\* Lines 133-137: amount_before_tw, the part of the segment sold while the
\* holding is below its target
SellBeforeTw(current_amount, amount_in_interval, target_amount) ==
    IF current_amount >= target_amount THEN 0
    ELSE IF WrapAdd(current_amount, amount_in_interval) >= target_amount
         THEN amount_in_interval
              - (WrapAdd(current_amount, amount_in_interval) - target_amount)
         ELSE amount_in_interval

\* Lines 126-137: a segment the offset covers is skipped; of any other the
\* part past the offset is sold, as far as the amount left goes
SellSegment(s, token_settings, target_amount, step_amount, current_price, curve_offset) ==
    IF step_amount <= curve_offset
    THEN [s EXCEPT !.step          = s.step + 1,
                   !.done          = s.step + 1 > NUM_OF_POINTS_IN_CURVE_DATA,
                   !.current_price = current_price,
                   !.curve_offset  = curve_offset - step_amount,
                   !.skipped       = TRUE]
    ELSE SellValues(s, token_settings, current_price,
             Min(step_amount - curve_offset, s.amount_left),
             SellBeforeTw(s.current_amount,
                          Min(step_amount - curve_offset, s.amount_left),
                          target_amount))

\* The curve's price taken for every segment of a token that uses curve data
SellPriceOfCurve(s, token_settings, curve) ==
    IF /\ s.step < NUM_OF_POINTS_IN_CURVE_DATA
       /\ token_settings.use_curve_data = USE_CURVE_DATA
    THEN curve.price[s.step]
    ELSE s.current_price

\* Lines 121-124: the price of the segment; the curve's price is adopted
\* when it is lower than the running price and the token uses curve data
SellPrice(s, token_settings, curve) ==
    IF /\ s.step < NUM_OF_POINTS_IN_CURVE_DATA
       /\ curve.price[s.step] < s.current_price
       /\ token_settings.use_curve_data = USE_CURVE_DATA
    THEN curve.price[s.step]
    ELSE s.current_price

\* The iteration with the offset left by the curve kept in the last segment
SellIterKeepsOffset(s, token_settings, target_amount, curve) ==
    SellSegment(s, token_settings, target_amount,
        IF s.step < NUM_OF_POINTS_IN_CURVE_DATA
        THEN curve.amount[s.step] ELSE s.amount_left,
        SellPrice(s, token_settings, curve),
        s.curve_offset)

\* One iteration of the loop of compute_value_of_sold_token (lines 118-156):
\* the segment's amount, its price, and the offset (none in the last segment)
SellIter(s, token_settings, target_amount, curve) ==
    SellSegment(s, token_settings, target_amount,
        IF s.step < NUM_OF_POINTS_IN_CURVE_DATA
        THEN curve.amount[s.step] ELSE s.amount_left,
        SellPrice(s, token_settings, curve),
        IF s.step = NUM_OF_POINTS_IN_CURVE_DATA THEN 0 ELSE s.curve_offset)

\* The loop of compute_value_of_sold_token, run to its end
RECURSIVE SellRun(_, _, _, _)
SellRun(s, token_settings, target_amount, curve) ==
    IF s.done THEN s
    ELSE SellRun(SellIter(s, token_settings, target_amount, curve),
                 token_settings, target_amount, curve)

\* SymmetryTokenSwap::compute_value_of_sold_token: the locals at return
\* (current_output_value is the value returned)
compute_value_of_sold_token(amount, token_settings, price, start_amount, target_amount, curve) ==
    SellRun(SellInit(amount, price, start_amount, target_amount),
            token_settings, target_amount, curve)

----------------------------------------------------------------------------
(* compute_amount_of_bought_token, one loop iteration at a time *)

\* The locals of compute_amount_of_bought_token before the loop (lines 169-173)
BuyInit(value, price, start_amount, target_amount) ==
    [ step                  |-> 0,
      done                  |-> FALSE,
      current_amount        |-> start_amount,
      curve_offset          |-> IF start_amount < target_amount
                                THEN target_amount - start_amount ELSE 0,
      current_output_amount |-> 0,
      value_left            |-> value,
      current_price         |-> price.buy_price,
      skipped               |-> FALSE,
      value_in_interval     |-> 0,
      value_before_tw       |-> 0,
      value_after_tw        |-> 0,
      fees                  |-> 0,
      ovf                   |-> FALSE ]

\* Lines 209-213: the segment is accounted for
BuyAccumulate(s, current_price, value_in_interval, value_before_tw, fees, amount_bought) ==
    [ step                  |-> s.step + 1,
      done                  |-> \/ s.step + 1 > NUM_OF_POINTS_IN_CURVE_DATA
                                \/ s.value_left - value_in_interval = 0,
      current_amount        |-> IF amount_bought > s.current_amount THEN 0
                                ELSE s.current_amount - amount_bought,
      curve_offset          |-> 0,
      current_output_amount |-> WrapAdd(s.current_output_amount, amount_bought),
      value_left            |-> s.value_left - value_in_interval,
      current_price         |-> current_price,
      skipped               |-> FALSE,
      value_in_interval     |-> value_in_interval,
      value_before_tw       |-> value_before_tw,
      value_after_tw        |-> WrapSub(value_in_interval, value_before_tw),
      fees                  |-> fees,
      ovf                   |-> \/ s.ovf
                                \/ SubOvf(value_in_interval, value_before_tw)
                                \/ SubOvf(value_in_interval, fees)
                                \/ AddOvf(s.current_output_amount, amount_bought) ]

\* Line 207: the amount the segment's value buys once the fees are taken
BuyAmount(s, token_settings, current_price, value_in_interval, value_before_tw, fee_before, fee_after) ==
    BuyAccumulate([s EXCEPT !.ovf = @ \/ AddOvf(fee_before, fee_after)],
        current_price, value_in_interval, value_before_tw,
        WrapAdd(fee_before, fee_after),
        usd_value_to_amount(WrapSub(value_in_interval, WrapAdd(fee_before, fee_after)),
                            token_settings.decimals, current_price))

\* Lines 201-205: the fee of each part of the segment, at its own tier
BuyFees(s, token_settings, current_price, value_in_interval, value_before_tw) ==
    BuyAmount(s, token_settings, current_price, value_in_interval, value_before_tw,
        mul_div(value_before_tw, token_settings.token_swap_fee_before_tw_bps, BPS_DIVIDER),
        mul_div(WrapSub(value_in_interval, value_before_tw),
                token_settings.token_swap_fee_after_tw_bps, BPS_DIVIDER))

\* The value of the part of the segment bought once the holding is at or
\* below its target (line 200)
BuyPastTw(current_amount, target_amount, amount_in_interval, decimals, current_price) ==
    amount_to_usd_value(
        WrapSub(WrapAdd(target_amount, amount_in_interval), current_amount),
        decimals, current_price)

\* Lines 196-200: value_before_tw, the part of the segment's value bought
\* while the holding is above its target
BuyBeforeTw(current_amount, target_amount, amount_in_interval, value_in_interval, decimals, current_price) ==
    IF current_amount <= target_amount THEN 0
    ELSE IF current_amount <= WrapAdd(target_amount, amount_in_interval)
         THEN WrapSub(value_in_interval,
                      BuyPastTw(current_amount, target_amount, amount_in_interval,
                                decimals, current_price))
         ELSE value_in_interval

\* Whether lines 199-200 overflow
BuyBeforeTwOvf(current_amount, target_amount, amount_in_interval, value_in_interval, decimals, current_price) ==
    /\ current_amount > target_amount
    /\ \/ AddOvf(target_amount, amount_in_interval)
       \/ /\ current_amount <= WrapAdd(target_amount, amount_in_interval)
          /\ SubOvf(value_in_interval,
                    BuyPastTw(current_amount, target_amount, amount_in_interval,
                              decimals, current_price))

\* Lines 196-201: the segment's value split at the target
BuySplit(s, token_settings, target_amount, current_price, amount_in_interval, value_in_interval) ==
    BuyFees([s EXCEPT !.ovf = @ \/ BuyBeforeTwOvf(s.current_amount, target_amount,
                                      amount_in_interval, value_in_interval,
                                      token_settings.decimals, current_price)],
        token_settings, current_price, value_in_interval,
        BuyBeforeTw(s.current_amount, target_amount, amount_in_interval,
                    value_in_interval, token_settings.decimals, current_price))

\* Lines 190-194: a segment worth more than the value left is cut to it, and
\* its amount computed back from the value
BuyTruncate(s, token_settings, target_amount, current_price, amount_in_interval, value_in_interval) ==
    IF value_in_interval > s.value_left
    THEN BuySplit(s, token_settings, target_amount, current_price,
             usd_value_to_amount(s.value_left, token_settings.decimals, current_price),
             s.value_left)
    ELSE BuySplit(s, token_settings, target_amount, current_price,
             amount_in_interval, value_in_interval)

\* Lines 183-190: a segment the offset covers is skipped; any other is valued
\* past the offset
BuySegment(s, token_settings, target_amount, step_amount, current_price, curve_offset) ==
    IF step_amount <= curve_offset
    THEN [s EXCEPT !.step          = s.step + 1,
                   !.done          = s.step + 1 > NUM_OF_POINTS_IN_CURVE_DATA,
                   !.current_price = current_price,
                   !.curve_offset  = curve_offset - step_amount,
                   !.skipped       = TRUE]
    ELSE BuyTruncate([s EXCEPT !.ovf = @ \/ Pow10Ovf(token_settings.decimals)],
             token_settings, target_amount, current_price,
             step_amount - curve_offset,
             amount_to_usd_value(step_amount - curve_offset,
                                 token_settings.decimals, current_price))

\* Lines 179-181: the price of the segment; the curve's price is adopted
\* when it is higher than the running price and the token uses curve data
BuyPrice(s, token_settings, curve) ==
    IF /\ s.step < NUM_OF_POINTS_IN_CURVE_DATA
       /\ curve.price[s.step] > s.current_price
       /\ token_settings.use_curve_data = USE_CURVE_DATA
    THEN curve.price[s.step]
    ELSE s.current_price

\* Lines 176-178: the amount of the segment; the last one is sized to twice
\* the value left, at the price reached so far
BuyStepAmount(s, token_settings, curve) ==
    IF s.step < NUM_OF_POINTS_IN_CURVE_DATA
    THEN curve.amount[s.step]
    ELSE usd_value_to_amount(WrapMul(s.value_left, 2), token_settings.decimals,
                             s.current_price)

\* One iteration of the loop of compute_amount_of_bought_token (lines 175-214)
BuyIter(s, token_settings, target_amount, curve) ==
    BuySegment(
        [s EXCEPT !.ovf = @ \/ (s.step = NUM_OF_POINTS_IN_CURVE_DATA
                                /\ (MulOvf(s.value_left, 2)
                                    \/ Pow10Ovf(token_settings.decimals)))],
        token_settings, target_amount,
        BuyStepAmount(s, token_settings, curve),
        BuyPrice(s, token_settings, curve),
        IF s.step = NUM_OF_POINTS_IN_CURVE_DATA THEN 0 ELSE s.curve_offset)

\* The loop of compute_amount_of_bought_token, run to its end
RECURSIVE BuyRun(_, _, _, _)
BuyRun(s, token_settings, target_amount, curve) ==
    IF s.done THEN s
    ELSE BuyRun(BuyIter(s, token_settings, target_amount, curve),
                token_settings, target_amount, curve)

\* SymmetryTokenSwap::compute_amount_of_bought_token: the locals at return
\* (current_output_amount is the amount returned)
compute_amount_of_bought_token(value, token_settings, price, start_amount, target_amount, curve) ==
    BuyRun(BuyInit(value, price, start_amount, target_amount),
           token_settings, target_amount, curve)

----------------------------------------------------------------------------
(* Bounds of the account tables *)

\* Length of TokenList.list (accounts::MAX_TOKENS_IN_ASSET_POOL)
MAX_TOKENS_IN_ASSET_POOL == 3

\* Length of FundState.current_comp_token, current_comp_amount, target_weight
CompSlots == 3

----------------------------------------------------------------------------
(* quote().  As above, every operator takes the locals computed so far and  *)
(* hands them on; c holds the instance, the request and the token ids and   *)
(* composition indices found for it.                                        *)

\* iter().position(): the first index below n at which arr holds x; -1 plays None
Position(arr, n, x) ==
    IF \E i \in 0..(n - 1) : arr[i] = x
    THEN CHOOSE i \in 0..(n - 1) : arr[i] = x /\ \A j \in 0..(i - 1) : arr[j] # x
    ELSE -1

\* position() in fund_state.current_comp_token (lines 321-324): every slot
\* of the array is searched
PositionInComp(fs, x) == Position(fs.current_comp_token, CompSlots, x)

\* The rejections of quote(), by the message they carry
ErrLpDisabled == "Manager has disabled liquidity provision on this fund"
ErrFromNotSupported == "From token not found in supported tokens"
ErrToNotSupported == "To token not found in supported tokens"
ErrFromNotInComp == "From token not found in the fund composition"
ErrToNotInComp == "To token not found in the fund composition"
ErrOracle == "One of the tokens has offline oracle status"
ErrFromWeight == "From token weight exceeds max allowed weight"
ErrToWeight == "To token weight exceeds min allowed weight"

\* Err(Error::msg(..)); ovf: a plain u64 operation overflowed before the return
NoWeights == [reached |-> FALSE]
Rejected(msg, ovf) == [kind |-> "Err", err |-> msg, ovf |-> ovf, weights |-> NoWeights]

FromSettings(c) == c.tl.list[c.from_token_id]
ToSettings(c) == c.tl.list[c.to_token_id]
FromHolding(c) == c.fs.current_comp_amount[c.from_token_index]
ToHolding(c) == c.fs.current_comp_amount[c.to_token_index]

\* What lines 463-492 computed for the two weight checks
WeightsOf(from_new_weight, to_new_weight, allowed_from_target_weight, allowed_to_target_weight, removing_dust) ==
    [ from_new_weight            |-> from_new_weight,
      to_new_weight              |-> to_new_weight,
      allowed_from_target_weight |-> allowed_from_target_weight,
      allowed_to_target_weight   |-> allowed_to_target_weight,
      removing_dust              |-> removing_dust ]

\* Lines 494-510: the two weight checks, and the Quote.  fee and weights
\* keep the locals the result was computed from.
QuoteReturn(c, ovf, to_amount, fee, w) ==
    IF w.from_new_weight > w.allowed_from_target_weight /\ ~w.removing_dust
    THEN [Rejected(ErrFromWeight, ovf) EXCEPT !.weights = w]
    ELSE IF w.to_new_weight < w.allowed_to_target_weight
    THEN [Rejected(ErrToWeight, ovf) EXCEPT !.weights = w]
    ELSE [ kind       |-> "Quote",
           in_amount  |-> c.qp.in_amount,
           out_amount |-> to_amount,
           fee_amount |-> fee.total_fees,
           fee_mint   |-> c.qp.output_mint,
           fee_bps    |-> fee.fee_bps,
           ovf        |-> ovf,
           fee        |-> fee,
           weights    |-> w ]

\* Line 474
AllowedOffset(fs) == WrapMul(fs.rebalance_threshold, fs.lp_offset_threshold)

\* Lines 476-480 and 486-488: the highest weight the sold token may reach
AllowedFromTargetWeight(fs, index) ==
    Min(mul_div(fs.target_weight[index],
                WrapAdd(BPS_DIVIDER * BPS_DIVIDER, AllowedOffset(fs)),
                BPS_DIVIDER * BPS_DIVIDER),
        WEIGHT_MULTIPLIER)

\* Lines 481-485: the lowest weight the bought token may reach
AllowedToTargetWeight(fs, index) ==
    mul_div(fs.target_weight[index],
            WrapSub(BPS_DIVIDER * BPS_DIVIDER, AllowedOffset(fs)),
            BPS_DIVIDER * BPS_DIVIDER)

\* The checks without the exception for dust
RemovingDustNever(c) == FALSE

\* Lines 490-492
RemovingDust(c) == c.from_token_id = 0 /\ c.fs.target_weight[c.to_token_index] = 0

\* Lines 474-492: the allowed weights
QuoteAllowed(c, ovf, to_amount, fee, from_new_weight, to_new_weight) ==
    QuoteReturn(c,
        \/ ovf
        \/ MulOvf(c.fs.rebalance_threshold, c.fs.lp_offset_threshold)
        \/ AddOvf(BPS_DIVIDER * BPS_DIVIDER, AllowedOffset(c.fs))
        \/ SubOvf(BPS_DIVIDER * BPS_DIVIDER, AllowedOffset(c.fs)),
        to_amount, fee,
        WeightsOf(from_new_weight, to_new_weight,
                  AllowedFromTargetWeight(c.fs, c.from_token_index),
                  AllowedToTargetWeight(c.fs, c.to_token_index),
                  RemovingDust(c)))

\* if x < y { 0 } else { x - y } (lines 460-461)
SubOrZero(x, y) == IF x < y THEN 0 ELSE x - y

\* Lines 463-472: the weights of the two tokens in the projected fund
QuoteNewWeights(c, ovf, to_amount, fee, from_token_worth_after_swap, to_token_worth_after_swap, fund_worth) ==
    QuoteAllowed(c, ovf, to_amount, fee,
        mul_div(from_token_worth_after_swap, WEIGHT_MULTIPLIER, fund_worth),
        mul_div(to_token_worth_after_swap, WEIGHT_MULTIPLIER, fund_worth))

\* Lines 431-440 and 458-461: the worth of the fund after the swap
QuoteFundWorth(c, ovf, fund_worth, to_amount, fee, from_token_worth_after_swap, to_token_worth_after_swap) ==
    QuoteNewWeights(c,
        \/ ovf
        \/ AddOvf(fund_worth, from_token_worth_after_swap)
        \/ AddOvf(WrapAdd(fund_worth, from_token_worth_after_swap),
                  to_token_worth_after_swap),
        to_amount, fee, from_token_worth_after_swap, to_token_worth_after_swap,
        SubOrZero(
            SubOrZero(
                WrapAdd(WrapAdd(fund_worth, from_token_worth_after_swap),
                        to_token_worth_after_swap),
                amount_to_usd_value(FromHolding(c), FromSettings(c).decimals,
                                    FromSettings(c).oracle_price.avg_price)),
            amount_to_usd_value(ToHolding(c), ToSettings(c).decimals,
                                ToSettings(c).oracle_price.avg_price)))

\* Lines 443-447 and 449-456: the worth of each holding after the swap
QuoteWorthAfter(c, ovf, fund_worth, to_amount, fee, safe_from_amount, safe_to_amount) ==
    QuoteFundWorth(c, ovf \/ AddOvf(FromHolding(c), safe_from_amount),
        fund_worth, to_amount, fee,
        amount_to_usd_value(WrapAdd(FromHolding(c), safe_from_amount),
                            FromSettings(c).decimals,
                            FromSettings(c).oracle_price.avg_price),
        amount_to_usd_value(ToHolding(c) - Min(safe_to_amount, ToHolding(c)),
                            ToSettings(c).decimals,
                            ToSettings(c).oracle_price.avg_price))

\* Lines 442 and 448: the amounts sold and bought, raised by 1%
QuoteSafeAmounts(c, ovf, fund_worth, amount_without_fees, to_amount, fee) ==
    QuoteWorthAfter(c,
        \/ ovf
        \/ fee.ovf
        \/ MulOvf(c.qp.in_amount, 101)
        \/ SubOvf(amount_without_fees, fee.fund_fee)
        \/ MulOvf(WrapSub(amount_without_fees, fee.fund_fee), 101),
        fund_worth, to_amount, fee,
        WrapMul(c.qp.in_amount, 101) \div 100,
        WrapMul(WrapSub(amount_without_fees, fee.fund_fee), 101) \div 100)

\* Line 423: what is left of the fees once the three shares are taken
FeeSplitOf(total_fees, symmetry_fee, host_fee, manager_fee, fee_bps) ==
    [ total_fees   |-> total_fees,
      symmetry_fee |-> symmetry_fee,
      host_fee     |-> host_fee,
      manager_fee  |-> manager_fee,
      fund_fee     |-> WrapSub(WrapSub(WrapSub(total_fees, symmetry_fee), host_fee),
                               manager_fee),
      fee_bps      |-> fee_bps,
      ovf          |-> \/ SubOvf(total_fees, symmetry_fee)
                       \/ SubOvf(WrapSub(total_fees, symmetry_fee), host_fee)
                       \/ SubOvf(WrapSub(WrapSub(total_fees, symmetry_fee), host_fee),
                                 manager_fee) ]

\* A share of the fees rounded up instead of down
ShareRoundedUp(total_fees, share) ==
    mul_div(total_fees, share, 100) + (IF ((total_fees % 100) * share) % 100 = 0 THEN 0 ELSE 1)

\* The split with every share rounded up
FeeSplitRoundedUp(total_fees, tl, fair_amount) ==
    FeeSplitOf(total_fees,
        ShareRoundedUp(total_fees, tl.list[0].additional_data[60]),
        ShareRoundedUp(total_fees, tl.list[0].additional_data[61]),
        ShareRoundedUp(total_fees, tl.list[0].additional_data[62]),
        mul_div(total_fees, BPS_DIVIDER * 100, fair_amount))

\* Lines 414-429: the shares of the protocol, the host and the manager, out
\* of 100, and the fee rate reported
FeeSplit(total_fees, tl, fair_amount) ==
    FeeSplitOf(total_fees,
        mul_div(total_fees, tl.list[0].additional_data[60], 100),
        mul_div(total_fees, tl.list[0].additional_data[61], 100),
        mul_div(total_fees, tl.list[0].additional_data[62], 100),
        mul_div(total_fees, BPS_DIVIDER * 100, fair_amount))

\* Lines 394-402: the amount bought at the oracles' average prices
FairAmount(c) ==
    usd_value_to_amount(
        amount_to_usd_value(c.qp.in_amount, FromSettings(c).decimals,
                            FromSettings(c).oracle_price.avg_price),
        ToSettings(c).decimals, ToSettings(c).oracle_price.avg_price)

\* Lines 408-429: the amount paid out is at most amount_without_fees, and
\* the difference is the fees
QuoteFees(c, ovf, fund_worth, bought_amount, amount_without_fees) ==
    QuoteSafeAmounts(c, ovf, fund_worth, amount_without_fees,
        Min(bought_amount, amount_without_fees),
        FeeSplit(amount_without_fees - Min(bought_amount, amount_without_fees),
                 c.tl, FairAmount(c)))

\* Lines 384-392: the amount bought at the oracles' sell and buy prices
SpotAmount(c) ==
    usd_value_to_amount(
        amount_to_usd_value(c.qp.in_amount, FromSettings(c).decimals,
                            FromSettings(c).oracle_price.sell_price),
        ToSettings(c).decimals, ToSettings(c).oracle_price.buy_price)

\* amount_without_fees left at the spot amount, whatever the fund holds
QuoteCapSpot(c, ovf, fund_worth, bought) ==
    QuoteFees(c, ovf \/ bought.ovf, fund_worth, bought.current_output_amount,
        SpotAmount(c))

\* Lines 384-406: amount_without_fees, at most the holding of the bought token
QuoteCap(c, ovf, fund_worth, bought) ==
    QuoteFees(c, ovf \/ bought.ovf, fund_worth, bought.current_output_amount,
        Min(SpotAmount(c), ToHolding(c)))

\* Lines 375-382
QuoteBuy(c, ovf, fund_worth, to_token_target_amount, sold) ==
    QuoteCap(c, ovf \/ sold.ovf, fund_worth,
        compute_amount_of_bought_token(sold.current_output_value, ToSettings(c),
            ToSettings(c).oracle_price, ToHolding(c), to_token_target_amount,
            c.cd.buy[c.to_token_id]))

\* Lines 366-373
QuoteSell(c, ovf, fund_worth, from_token_target_amount, to_token_target_amount) ==
    QuoteBuy(c, ovf, fund_worth, to_token_target_amount,
        compute_value_of_sold_token(c.qp.in_amount, FromSettings(c),
            FromSettings(c).oracle_price, FromHolding(c), from_token_target_amount,
            c.cd.sell[c.from_token_id]))

\* Lines 355-364: the amount of a token that is its target weight of the fund
TargetAmount(fs, index, fund_worth, token_settings) ==
    usd_value_to_amount(
        mul_div(fs.target_weight[index], fund_worth, fs.weight_sum),
        token_settings.decimals, token_settings.oracle_price.avg_price)

\* Lines 352-364
QuoteTargets(c, ovf, fund_worth) ==
    QuoteSell(c,
        ovf \/ Pow10Ovf(FromSettings(c).decimals) \/ Pow10Ovf(ToSettings(c).decimals),
        fund_worth,
        TargetAmount(c.fs, c.from_token_index, fund_worth, FromSettings(c)),
        TargetAmount(c.fs, c.to_token_index, fund_worth, ToSettings(c)))

\* The loop of lines 337-350 from index i on, with fund_worth = worth so far:
\* the total, whether an oracle was found offline, whether a sum overflowed
\* before the loop ended
RECURSIVE FundWorth(_, _, _, _, _)
FundWorth(fs, tl, i, worth, ovf) ==
    IF i >= fs.num_of_tokens
    THEN [offline |-> FALSE, fund_worth |-> worth, ovf |-> ovf]
    ELSE IF tl.list[fs.current_comp_token[i]].oracle_price.oracle_live = 0
    THEN [offline |-> TRUE, fund_worth |-> worth, ovf |-> ovf]
    ELSE FundWorth(fs, tl, i + 1,
             WrapAdd(worth,
                 amount_to_usd_value(fs.current_comp_amount[i],
                     tl.list[fs.current_comp_token[i]].decimals,
                     tl.list[fs.current_comp_token[i]].oracle_price.avg_price)),
             \/ ovf
             \/ Pow10Ovf(tl.list[fs.current_comp_token[i]].decimals)
             \/ AddOvf(worth,
                 amount_to_usd_value(fs.current_comp_amount[i],
                     tl.list[fs.current_comp_token[i]].decimals,
                     tl.list[fs.current_comp_token[i]].oracle_price.avg_price)))

\* Lines 337-350: the worth of the fund, unless an oracle is offline
QuoteWorth(c, worth) ==
    IF worth.offline THEN Rejected(ErrOracle, worth.ovf)
    ELSE QuoteTargets(c, worth.ovf, worth.fund_worth)

\* Lines 321-334: both tokens must be found in the composition
QuoteComposition(c) ==
    IF c.from_token_index = -1 THEN Rejected(ErrFromNotInComp, FALSE)
    ELSE IF c.to_token_index = -1 THEN Rejected(ErrToNotInComp, FALSE)
    ELSE QuoteWorth(c, FundWorth(c.fs, c.tl, 0, 0, FALSE))

\* The instance and the request of a call, with the ids of the two tokens
\* (lines 315-316) and their indices in the composition (lines 321-324)
QuoteContext(fs, tl, cd, qp, from_token_id, to_token_id) ==
    [ fs |-> fs, tl |-> tl, cd |-> cd, qp |-> qp,
      from_token_id    |-> from_token_id,
      to_token_id      |-> to_token_id,
      from_token_index |-> PositionInComp(fs, from_token_id),
      to_token_index   |-> PositionInComp(fs, to_token_id) ]

\* The two lookups in the token list checked in the other order
QuoteAssetsToFirst(fs, tl, cd, qp, from_token_id, to_token_id) ==
    IF to_token_id = -1 THEN Rejected(ErrToNotSupported, FALSE)
    ELSE IF from_token_id = -1 THEN Rejected(ErrFromNotSupported, FALSE)
    ELSE QuoteComposition(QuoteContext(fs, tl, cd, qp, from_token_id, to_token_id))

\* Lines 305-319: both mints must be found in the token list
QuoteAssets(fs, tl, cd, qp, from_token_id, to_token_id) ==
    IF from_token_id = -1 THEN Rejected(ErrFromNotSupported, FALSE)
    ELSE IF to_token_id = -1 THEN Rejected(ErrToNotSupported, FALSE)
    ELSE QuoteComposition(QuoteContext(fs, tl, cd, qp, from_token_id, to_token_id))

\* The token_mint of every entry of token_list.list
Mints(tl) == [i \in 0..(MAX_TOKENS_IN_ASSET_POOL - 1) |-> tl.list[i].token_mint]

\* SymmetryTokenSwap::quote as a build without overflow checks computes it
\* (u64 arithmetic wraps); ovf: some plain u64 operation overflowed on the
\* way, which is where a build with overflow checks panics
quote(fs, tl, cd, qp) ==
    IF fs.lp_disabled = FUND_LP_DISABLED THEN Rejected(ErrLpDisabled, FALSE)
    ELSE QuoteAssets(fs, tl, cd, qp,
             Position(Mints(tl), MAX_TOKENS_IN_ASSET_POOL, qp.input_mint),
             Position(Mints(tl), MAX_TOKENS_IN_ASSET_POOL, qp.output_mint))

\* The panic of a build with overflow checks
Panicked == [kind |-> "Panic", ovf |-> TRUE, weights |-> NoWeights]

\* What a call of quote() can end in: the result computed with wrapping
\* arithmetic, or, when an operation overflowed, the panic of a build with
\* overflow checks
QuoteOutcomes(fs, tl, cd, qp) ==
    IF quote(fs, tl, cd, qp).ovf
    THEN {quote(fs, tl, cd, qp), Panicked}
    ELSE {quote(fs, tl, cd, qp)}

----------------------------------------------------------------------------
(* The accounts the instance is built and refreshed from *)

Tokens == 0..(MAX_TOKENS_IN_ASSET_POOL - 1)
Slots == 0..(CompSlots - 1)
Points == 0..(NUM_OF_POINTS_IN_CURVE_DATA - 1)

\* Pubkey::default(), the oracle account of an unused entry of the token list
NoAccount == 0

\* The mint of token i, and a mint no entry of the token list has
MintOf(i) == 100 + i
UnknownMint == MintOf(0) - 1

\* Oracle prices, two implied decimals.  Token 0 is the base asset (1.00),
\* token 1 is quoted around 20.00, token 2 around 5.00.
LivePrice(i) ==
    CASE i = 0 -> [buy_price |-> 100,  sell_price |-> 100,  avg_price |-> 100,  oracle_live |-> 1]
      [] i = 1 -> [buy_price |-> 2010, sell_price |-> 1990, avg_price |-> 2000, oracle_live |-> 1]
      [] i = 2 -> [buy_price |-> 505,  sell_price |-> 495,  avg_price |-> 500,  oracle_live |-> 1]
      [] OTHER -> [buy_price |-> 1,    sell_price |-> 1,    avg_price |-> 1,    oracle_live |-> 1]

\* What the oracle accounts hold: every feed live, or the feed of one token
\* not live, or the price of token 1 unset
OraclePrices ==
    { [i \in Tokens |-> LivePrice(i)] }
    \cup { [i \in Tokens |-> IF i = t THEN [LivePrice(i) EXCEPT !.oracle_live = 0]
                                      ELSE LivePrice(i)] : t \in {0, 2} }
    \cup { [i \in Tokens |-> IF i = 1
                             THEN [buy_price |-> 0, sell_price |-> 0, avg_price |-> 0, oracle_live |-> 1]
                             ELSE LivePrice(i)] }

\* The decimals of tokens 0, 1, 2, the fee tiers (before, after target),
\* whether curves are used, and the protocol, host and manager shares of the
\* fees (out of 100).  The shares of Oversplit sum to 110; under Coarse
\* token 1 has no decimals, so that one unit of it is worth about 2000.
Tiered == [decimals |-> <<2, 3, 3>>, before |-> 10, after |-> 30, use_curve |-> 1, shares |-> <<20, 20, 20>>]
Flat == [decimals |-> <<2, 3, 3>>, before |-> 0, after |-> 500, use_curve |-> 0, shares |-> <<50, 30, 20>>]
Oversplit == [decimals |-> <<2, 3, 3>>, before |-> 10, after |-> 30, use_curve |-> 1, shares |-> <<60, 30, 20>>]
Coarse == [decimals |-> <<2, 0, 3>>, before |-> 10, after |-> 30, use_curve |-> 1, shares |-> <<20, 20, 20>>]
TokenListVariants == {Tiered, Flat, Oversplit, Coarse}

\* TokenList::load: the token list account with the settings of variant v
\* and the oracle prices o stored in it
TokenListOf(v, o) ==
    [ num_tokens |-> MAX_TOKENS_IN_ASSET_POOL,
      list |-> [i \in Tokens |->
          [ token_mint |-> MintOf(i),
            decimals   |-> IF i < 3 THEN v.decimals[i + 1] ELSE 0,
            token_swap_fee_before_tw_bps |-> v.before,
            token_swap_fee_after_tw_bps  |-> v.after,
            use_curve_data  |-> v.use_curve,
            oracle_account  |-> IF i < 3 THEN 200 + i ELSE NoAccount,
            oracle_price    |-> o[i],
            additional_data |-> [k \in {60, 61, 62} |-> v.shares[k - 59]] ] ] ]

\* CurveData::empty()
EmptyCurve == [amount |-> [k \in Points |-> 0], price |-> [k \in Points |-> 0]]
EmptyCurveData == [buy |-> [i \in Tokens |-> EmptyCurve], sell |-> [i \in Tokens |-> EmptyCurve]]

\* A curve of token i whose k-th point holds (k + 1) * amount units at a price
\* k + 1 steps of 1/200 off the oracle's
CurveOf(i, amount, up) ==
    [ amount |-> [k \in Points |-> (k + 1) * amount],
      price  |-> [k \in Points |->
                    IF up THEN LivePrice(i).buy_price + ((k + 1) * LivePrice(i).buy_price) \div 200
                    ELSE LivePrice(i).sell_price - ((k + 1) * LivePrice(i).sell_price) \div 200] ]

\* What the curve data account holds
CurveDatas ==
    { EmptyCurveData,
      [ buy  |-> [i \in Tokens |-> CurveOf(i, 4000, TRUE)],
        sell |-> [i \in Tokens |-> CurveOf(i, 4000, FALSE)] ] }

\* Compositions: tokens 1, 2, 0 held in this order, or only tokens 1, 2 held
\* with the slots past num_of_tokens left zeroed
CompTokens(s) == IF s = 0 THEN 1 ELSE IF s = 1 THEN 2 ELSE 0

\* FundState::load: a fund of n tokens with holdings h and target weights w
\* (of tokens 1, 2, 0), thresholds t, and the lp_disabled flag d
FundStateOf(n, h, w, t, d) ==
    [ num_of_tokens       |-> n,
      current_comp_token  |-> [s \in Slots |-> CompTokens(s)],
      current_comp_amount |-> [s \in Slots |-> IF s < n /\ s < 3 THEN h[s + 1] ELSE 0],
      target_weight       |-> [s \in Slots |-> IF s < n /\ s < 3 THEN w[s + 1] ELSE 0],
      weight_sum          |-> WEIGHT_MULTIPLIER,
      rebalance_threshold |-> t[1],
      lp_offset_threshold |-> t[2],
      lp_disabled         |-> d ]

\* Holdings and target weights of tokens 1, 2, 0.  Balanced: worth 500000,
\* 300000, 200000 at weights 5000, 3000, 2000 (Whole: the same when token 1
\* has no decimals).  Dust: token 1 down to 50 units at weight 0, or at
\* weight 100, or still at weight 5000.
Balanced == [h |-> <<250000, 600000, 200000>>, w |-> <<5000, 3000, 2000>>]
Whole == [h |-> <<250, 600000, 200000>>, w |-> <<5000, 3000, 2000>>]
DustZero == [h |-> <<50, 600000, 700000>>, w |-> <<0, 4000, 6000>>]
DustKept == [h |-> <<50, 600000, 700000>>, w |-> <<100, 3900, 6000>>]
Drained == [h |-> <<50, 600000, 700000>>, w |-> <<5000, 3000, 2000>>]
Portfolios == {Balanced, Whole, DustZero, DustKept, Drained}

\* rebalance_threshold and lp_offset_threshold, in basis points: a band of
\* 10% around the target weights, and one of 200%
Narrow10 == <<2000, 5000>>
Wide200 == <<20000, 10000>>

\* What the fund state account holds
FundStates ==
    { FundStateOf(n, p.h, p.w, Narrow10, 0) : n \in {2, 3}, p \in Portfolios }
    \cup { FundStateOf(3, Balanced.h, Balanced.w, Wide200, 0),
           FundStateOf(3, Balanced.h, Balanced.w, Narrow10, FUND_LP_DISABLED) }

\* The requests made of quote()
InAmounts == {0, 1, 1000, 100000, WordMax \div 500, WordMax \div 101 + 1, WordMax}
QuoteRequests ==
    { [input_mint |-> MintOf(p[1]), output_mint |-> MintOf(p[2]), in_amount |-> a] :
        p \in {<<1, 2>>, <<1, 0>>, <<0, 1>>, <<0, 2>>, <<2, 1>>}, a \in InAmounts }
    \cup { [input_mint |-> UnknownMint, output_mint |-> MintOf(1), in_amount |-> 1000],
           [input_mint |-> MintOf(1), output_mint |-> UnknownMint, in_amount |-> 1000],
           [input_mint |-> UnknownMint, output_mint |-> UnknownMint, in_amount |-> 1000] }

----------------------------------------------------------------------------
(* The instance: construction, update(), quote() *)

NoCall == [fn |-> "none"]
NoLoop == [fn |-> "none"]
NoQuote == [kind |-> "None"]

\* SymmetryTokenSwap::from_keyed_account
Init ==
    /\ fund_state \in FundStates
    /\ \E v \in TokenListVariants, o \in OraclePrices : token_list = TokenListOf(v, o)
    /\ curve_data = EmptyCurveData
    /\ quote_params = NoQuote
    /\ quote_result = NoQuote
    /\ call = NoCall
    /\ loop = NoLoop

\* token_list after the loop of lines 279-290 replaced the oracle prices of
\* the entries before index upto
WithOracles(tl, o, upto) ==
    [tl EXCEPT !.list = [i \in Tokens |->
        IF i < upto /\ tl.list[i].oracle_account # NoAccount
        THEN [tl.list[i] EXCEPT !.oracle_price = o[i]]
        ELSE tl.list[i]]]

\* update() with every account found and decoded
UpdateOk ==
    /\ quote_result = NoQuote
    /\ \E cd \in CurveDatas, fs \in FundStates, o \in OraclePrices :
          /\ curve_data' = cd
          /\ fund_state' = fs
          /\ token_list' = WithOracles(token_list, o, MAX_TOKENS_IN_ASSET_POOL)
    /\ UNCHANGED <<quote_params, quote_result, call, loop>>

\* update() returning early with an error: the curve data account is missing
\* or does not decode (lines 267-270), or the fund state account (273-276),
\* or the oracle account of token i (281-287)
UpdateErr ==
    /\ quote_result = NoQuote
    /\ \E cd \in CurveDatas, fs \in FundStates, o \in OraclePrices :
          \/ UNCHANGED <<curve_data, fund_state, token_list>>
          \/ /\ curve_data' = cd
             /\ UNCHANGED <<fund_state, token_list>>
          \/ \E i \in Tokens :
                /\ token_list.list[i].oracle_account # NoAccount
                /\ curve_data' = cd
                /\ fund_state' = fs
                /\ token_list' = WithOracles(token_list, o, i)
    /\ UNCHANGED <<quote_params, quote_result, call, loop>>

\* quote(): the call returns one of its outcomes to the caller
Quote ==
    /\ quote_result = NoQuote
    /\ \E qp \in QuoteRequests :
          /\ quote_params' = qp
          /\ quote_result' \in QuoteOutcomes(fund_state, token_list, curve_data, qp)
    /\ UNCHANGED <<fund_state, token_list, curve_data, call, loop>>

\* The caller drops the result it was returned
Drop ==
    /\ quote_result # NoQuote
    /\ quote_params' = NoQuote
    /\ quote_result' = NoQuote
    /\ UNCHANGED <<fund_state, token_list, curve_data, call, loop>>

Next == UpdateOk \/ UpdateErr \/ Quote \/ Drop

Spec == Init /\ [][Next]_vars

----------------------------------------------------------------------------
(* The pure helpers, called on their own *)

\* An instance as constructed, left alone while the helpers are called
Constructed ==
    /\ fund_state = FundStateOf(3, Balanced.h, Balanced.w, Narrow10, 0)
    /\ token_list = TokenListOf(Tiered, [i \in Tokens |-> LivePrice(i)])
    /\ curve_data = EmptyCurveData
    /\ quote_params = NoQuote
    /\ quote_result = NoQuote

\* Arguments of mul_div: small numbers, numbers whose products need more
\* than a word, and u64::MAX
Words == {0, 1, 2, 3, 7, 10, 100, 1000, 10000, Pow2(14), 3 * Pow2(WordBits - 15), WordMax \div 2 + 1, WordMax}

\* Arguments of the two conversions
Amounts == {0, 1, 5, 7, 999, 1000, 12345, 250000, WordMax \div 2000, WordMax}
Decimals == {0, 1, 2, 3, 6, 9, 10}
Prices == {0, 1, 3, 100, 1990, 100000}

InitArith == Constructed /\ call = NoCall /\ loop = NoLoop

\* A call of mul_div
MulDiv ==
    /\ call = NoCall
    /\ \E x \in Words, y \in Words, z \in Words :
          call' = [fn |-> "mul_div", a |-> x, b |-> y, c |-> z, result |-> mul_div(x, y, z)]
    /\ UNCHANGED <<fund_state, token_list, curve_data, quote_params, quote_result, loop>>

\* A call of amount_to_usd_value
AmountToUsdValue ==
    /\ call = NoCall
    /\ \E x \in Amounts, d \in Decimals, p \in Prices :
          call' = [fn |-> "amount_to_usd_value", amount |-> x, decimals |-> d, price |-> p,
                   result |-> amount_to_usd_value(x, d, p)]
    /\ UNCHANGED <<fund_state, token_list, curve_data, quote_params, quote_result, loop>>

\* A call of usd_value_to_amount on the value amount_to_usd_value returned,
\* with the same decimals and price; amount is the amount converted first
UsdValueToAmount ==
    /\ call.fn = "amount_to_usd_value"
    /\ call' = [fn |-> "usd_value_to_amount", worth |-> call.result, decimals |-> call.decimals,
                price |-> call.price, amount |-> call.amount,
                result |-> usd_value_to_amount(call.result, call.decimals, call.price)]
    /\ UNCHANGED <<fund_state, token_list, curve_data, quote_params, quote_result, loop>>

\* The caller is done with the result
Return ==
    /\ call # NoCall
    /\ call' = NoCall
    /\ UNCHANGED <<fund_state, token_list, curve_data, quote_params, quote_result, loop>>

NextArith == MulDiv \/ AmountToUsdValue \/ UsdValueToAmount \/ Return

SpecArith == InitArith /\ [][NextArith]_vars

----------------------------------------------------------------------------
(* The curve integrators, one loop iteration at a time *)

\* A curve with a single point: amount units at the given price, the other
\* points unset
SinglePoint(amount, price) ==
    [ amount |-> [k \in Points |-> IF k = 0 THEN amount ELSE 0],
      price  |-> [k \in Points |-> IF k = 0 THEN price ELSE 0] ]

\* The threshold of the single point, and the target of the holding
CurveThresholds == {1000, 4000}
TargetAmounts == {10000}

\* Holdings at the target, below it (by less and by more than a threshold),
\* and above it
StartAmounts(target) == {target, target - 500, target - 5000, target + 500, target + 5000}

\* Amounts sold: a threshold, one unit more, one unit less, and larger trades
SoldAmounts(T) == {0, 1, T - 1, T, T + 1, 2 * T, 3 * T + 1}

\* Budgets spent, in the units of the prices
Budgets == {0, 1, 39, 1000, 20000, 100000}

\* The settings of token 1 under each variant of the token list
CurveSettings == { TokenListOf(v, [i \in Tokens |-> LivePrice(i)]).list[1] : v \in {Tiered, Flat} }

InitCurve == Constructed /\ call = NoCall /\ loop = NoLoop

\* compute_value_of_sold_token is called: lines 112-116
SellStart ==
    /\ loop = NoLoop
    /\ \E ts \in CurveSettings, T \in CurveThresholds, target \in TargetAmounts :
       \E start \in StartAmounts(target), sold \in SoldAmounts(T) :
       \E curve \in {SinglePoint(T, LivePrice(1).sell_price - 10), CurveOf(1, T, FALSE), CurveOf(1, T, TRUE)} :
          loop' = [ fn |-> "compute_value_of_sold_token", amount |-> sold,
                    token_settings |-> ts, price |-> LivePrice(1),
                    start_amount |-> start, target_amount |-> target, curve |-> curve,
                    s |-> SellInit(sold, LivePrice(1), start, target) ]
    /\ UNCHANGED <<fund_state, token_list, curve_data, quote_params, quote_result, call>>

\* One iteration of its loop
SellStep ==
    /\ loop.fn = "compute_value_of_sold_token"
    /\ ~loop.s.done
    /\ loop' = [loop EXCEPT !.s = SellIter(loop.s, loop.token_settings, loop.target_amount, loop.curve)]
    /\ UNCHANGED <<fund_state, token_list, curve_data, quote_params, quote_result, call>>

\* It returns current_output_value, and its locals are gone
SellReturn ==
    /\ loop.fn = "compute_value_of_sold_token"
    /\ loop.s.done
    /\ loop' = NoLoop
    /\ UNCHANGED <<fund_state, token_list, curve_data, quote_params, quote_result, call>>

\* compute_amount_of_bought_token is called: lines 169-173
BuyStart ==
    /\ loop = NoLoop
    /\ \E ts \in CurveSettings, T \in CurveThresholds, target \in TargetAmounts :
       \E start \in StartAmounts(target), budget \in Budgets :
       \E curve \in {SinglePoint(T, LivePrice(1).buy_price + 10), CurveOf(1, T, TRUE), CurveOf(1, T, FALSE)} :
          loop' = [ fn |-> "compute_amount_of_bought_token", value |-> budget,
                    token_settings |-> ts, price |-> LivePrice(1),
                    start_amount |-> start, target_amount |-> target, curve |-> curve,
                    s |-> BuyInit(budget, LivePrice(1), start, target) ]
    /\ UNCHANGED <<fund_state, token_list, curve_data, quote_params, quote_result, call>>

\* One iteration of its loop
BuyStep ==
    /\ loop.fn = "compute_amount_of_bought_token"
    /\ ~loop.s.done
    /\ loop' = [loop EXCEPT !.s = BuyIter(loop.s, loop.token_settings, loop.target_amount, loop.curve)]
    /\ UNCHANGED <<fund_state, token_list, curve_data, quote_params, quote_result, call>>

\* It returns current_output_amount, and its locals are gone
BuyReturn ==
    /\ loop.fn = "compute_amount_of_bought_token"
    /\ loop.s.done
    /\ loop' = NoLoop
    /\ UNCHANGED <<fund_state, token_list, curve_data, quote_params, quote_result, call>>

NextCurve == SellStart \/ SellStep \/ SellReturn \/ BuyStart \/ BuyStep \/ BuyReturn

SpecCurve == InitCurve /\ [][NextCurve]_vars

----------------------------------------------------------------------------
(* A fund of two tokens, each at its target weight.  Token 1 (A) is worth   *)
(* 20.00 and token 2 (B) 1.00, at buy, sell and average alike; the fee      *)
(* tiers are 10 and 30 basis points and curve data is not used.  Amounts    *)
(* are scaled to the word: A has 5 decimals and B has 2 (three fewer, as 9  *)
(* and 6), and prices carry 3.                                              *)

Seed == [decimals |-> <<2, 5, 2>>, before |-> 10, after |-> 30, use_curve |-> 0, shares |-> <<20, 20, 20>>]

SeedPrice(i) ==
    IF i = 1
    THEN [buy_price |-> 20000, sell_price |-> 20000, avg_price |-> 20000, oracle_live |-> 1]
    ELSE [buy_price |-> 1000, sell_price |-> 1000, avg_price |-> 1000, oracle_live |-> 1]
SeedPrices == [i \in Tokens |-> SeedPrice(i)]

\* One unit of token A and of token B, in raw amounts
UnitA == 100000
UnitB == 100

\* The fund holding n units of A and 20 * n units of B, worth the same, at
\* target weights of one half each
SeedFundState(n) ==
    FundStateOf(2, <<n * UnitA, 20 * n * UnitB, 0>>, <<5000, 5000, 0>>, Narrow10, 0)
SeedPools == {100, 200, 500, 1000, 2000}

\* Requests: n units of A into B, or the 20 * n units of B they are worth
\* into A
SeedUnits == {1, 2, 5, 10, 20, 50}
SeedRequests ==
    { [input_mint |-> MintOf(1), output_mint |-> MintOf(2), in_amount |-> n * UnitA] : n \in SeedUnits }
    \cup { [input_mint |-> MintOf(2), output_mint |-> MintOf(1), in_amount |-> 20 * n * UnitB] : n \in SeedUnits }

\* SymmetryTokenSwap::from_keyed_account on the accounts of such a fund
InitSeed ==
    /\ \E n \in SeedPools : fund_state = SeedFundState(n)
    /\ token_list = TokenListOf(Seed, SeedPrices)
    /\ curve_data = EmptyCurveData
    /\ quote_params = NoQuote
    /\ quote_result = NoQuote
    /\ call = NoCall
    /\ loop = NoLoop

\* update() with every account found and decoded
UpdateSeed ==
    /\ quote_result = NoQuote
    /\ \E cd \in CurveDatas, n \in SeedPools :
          /\ curve_data' = cd
          /\ fund_state' = SeedFundState(n)
          /\ token_list' = WithOracles(token_list, SeedPrices, MAX_TOKENS_IN_ASSET_POOL)
    /\ UNCHANGED <<quote_params, quote_result, call, loop>>

\* quote() on a request for the two tokens of the fund
QuoteSeed ==
    /\ quote_result = NoQuote
    /\ \E qp \in SeedRequests :
          /\ quote_params' = qp
          /\ quote_result' \in QuoteOutcomes(fund_state, token_list, curve_data, qp)
    /\ UNCHANGED <<fund_state, token_list, curve_data, call, loop>>

NextSeed == UpdateSeed \/ QuoteSeed \/ Drop

SpecSeed == InitSeed /\ [][NextSeed]_vars

----------------------------------------------------------------------------
(* update(), one call at a time, against an account map in which an        *)
(* account may be missing or may not decode.  The call in progress keeps   *)
(* the three fields as they were when it was made, and what it returned.   *)

\* self: the fields update() assigns
Snapshot == [fund_state |-> fund_state, token_list |-> token_list, curve_data |-> curve_data]

\* Lines 279-290 from entry i on: the oracle of each listed token is loaded
\* and stored in turn, and the first one that fails returns the error
RECURSIVE UpdateOracles(_, _, _)
UpdateOracles(self, account_map, i) ==
    IF i = MAX_TOKENS_IN_ASSET_POOL THEN [result |-> "Ok", self |-> self]
    ELSE IF self.token_list.list[i].oracle_account = NoAccount
    THEN UpdateOracles(self, account_map, i + 1)
    ELSE IF ~account_map.oracle_ok[i] THEN [result |-> "Err", self |-> self]
    ELSE UpdateOracles([self EXCEPT !.token_list.list[i].oracle_price = account_map.oracle[i]],
                       account_map, i + 1)

\* Lines 273-277: the fund state is loaded and stored
UpdateFundState(self, account_map) ==
    IF ~account_map.fund_ok THEN [result |-> "Err", self |-> self]
    ELSE UpdateOracles([self EXCEPT !.fund_state = account_map.fund], account_map, 0)

\* update(): lines 267-271 load and store the curve data, then the rest
update(self, account_map) ==
    IF ~account_map.curve_ok THEN [result |-> "Err", self |-> self]
    ELSE UpdateFundState([self EXCEPT !.curve_data = account_map.curve], account_map)

\* Account maps: what the three kinds of account hold, and at most one
\* account that is missing or does not decode (the curve data, the fund
\* state, or the oracle of token 0, 1 or 2)
AccountMaps ==
    { [ curve_ok  |-> bad # <<"curve", 0>>,
        curve     |-> cd,
        fund_ok   |-> bad # <<"fund", 0>>,
        fund      |-> FundStateOf(3 - pf, IF pf = 0 THEN Balanced.h ELSE Drained.h, Balanced.w, Narrow10, 0),
        oracle_ok |-> [i \in Tokens |-> bad # <<"oracle", i>>],
        oracle    |-> o ] :
        cd \in CurveDatas, pf \in {0, 1}, o \in OraclePrices,
        bad \in {<<"none", 0>>, <<"curve", 0>>, <<"fund", 0>>} \cup {<<"oracle", i>> : i \in 0..2} }

InitUpdate == Constructed /\ call = NoCall /\ loop = NoLoop

\* A call of update()
Update ==
    /\ call = NoCall
    /\ \E am \in AccountMaps :
          /\ call' = [fn |-> "update", account_map |-> am, before |-> Snapshot,
                      result |-> update(Snapshot, am).result]
          /\ fund_state' = update(Snapshot, am).self.fund_state
          /\ token_list' = update(Snapshot, am).self.token_list
          /\ curve_data' = update(Snapshot, am).self.curve_data
    /\ UNCHANGED <<quote_params, quote_result, loop>>

NextUpdate == Update \/ Return

SpecUpdate == InitUpdate /\ [][NextUpdate]_vars

----------------------------------------------------------------------------
(* Properties.  What the caller holds of the last call of quote() is read  *)
(* against the instance the call ran on: update() does not run while the   *)
(* result is held.                                                         *)

\* The call returned (it did not panic)
Returned == quote_result.kind \in {"Quote", "Err"}

\* The call returned a Quote
Quoted == quote_result.kind = "Quote"

\* The ids of the request's tokens in the token list (-1: not listed)
FromId == Position(Mints(token_list), MAX_TOKENS_IN_ASSET_POOL, quote_params.input_mint)
ToId == Position(Mints(token_list), MAX_TOKENS_IN_ASSET_POOL, quote_params.output_mint)

\* The instance and the request of the call
Ctx == QuoteContext(fund_state, token_list, curve_data, quote_params, FromId, ToId)

\* The shares of the protocol, the host and the manager, out of 100
Shares == token_list.list[0].additional_data
ValidShares == Shares[60] + Shares[61] + Shares[62] <= 100

\* C1: in every Quote computed under shares that sum to at most 100, the
\* protocol, host and manager fees together do not exceed total_fees (the
\* fee left to the fund is not negative), and the four fees sum to
\* total_fees exactly, which is the fee_amount of the Quote.
C1_FeeConservation ==
    (Quoted /\ ValidShares) =>
        /\ quote_result.fee.symmetry_fee + quote_result.fee.host_fee
             + quote_result.fee.manager_fee <= quote_result.fee.total_fees
        /\ quote_result.fee.symmetry_fee + quote_result.fee.host_fee
             + quote_result.fee.manager_fee + quote_result.fee.fund_fee
           = quote_result.fee.total_fees
        /\ quote_result.fee.total_fees = quote_result.fee_amount

\* A Quote with fees, every party taking some, and a share that was rounded
C1_Witness ==
    /\ Quoted /\ ValidShares
    /\ quote_result.fee_amount > 0 /\ quote_result.fee_amount < 10000
    /\ quote_result.fee.symmetry_fee > 0
    /\ quote_result.fee.fund_fee > 0
    /\ quote_result.fee.symmetry_fee * 100 # quote_result.fee_amount * Shares[60]

\* C2: whenever quote() returns a Quote, out_amount is at most the holding
\* of the output token, and fee_amount is the spot amount capped at that
\* holding less out_amount, which is not negative.
C2_InventoryCap ==
    Quoted =>
        /\ quote_result.out_amount <= ToHolding(Ctx)
        /\ quote_result.out_amount <= Min(SpotAmount(Ctx), ToHolding(Ctx))
        /\ quote_result.fee_amount
             = Min(SpotAmount(Ctx), ToHolding(Ctx)) - quote_result.out_amount

\* A Quote whose spot amount exceeds the holding: the whole holding is paid out
C2_Witness ==
    /\ Quoted
    /\ ToHolding(Ctx) > 0
    /\ SpotAmount(Ctx) > ToHolding(Ctx)
    /\ quote_result.out_amount = ToHolding(Ctx)

\* Whether a * b fits a TLC integer
ProductFits(a, b) == a = 0 \/ b <= MaxInt \div a

\* floor(a * b / c) where it can be computed without the wide product: the
\* product fits, or c divides a factor.  -1: the quotient exceeds u64::MAX.
ExactQuotient(a, b, c) ==
    IF ProductFits(a, b)
    THEN (IF (a * b) \div c > WordMax THEN -1 ELSE (a * b) \div c)
    ELSE IF a % c = 0
    THEN (IF b > WordMax \div (a \div c) THEN -1 ELSE (a \div c) * b)
    ELSE (IF a > WordMax \div (b \div c) THEN -1 ELSE a * (b \div c))
HasExactQuotient(a, b, c) == c # 0 /\ (ProductFits(a, b) \/ a % c = 0 \/ b % c = 0)

\* C3: mul_div(a, b, c) is 0 when c = 0, is floor(a * b / c) when that fits
\* 64 bits, and is 0 when it does not; it is never above u64::MAX.
C3_MulDiv ==
    call.fn = "mul_div" =>
        /\ call.result \in 0..WordMax
        /\ call.c = 0 => call.result = 0
        /\ HasExactQuotient(call.a, call.b, call.c) =>
              call.result = (IF ExactQuotient(call.a, call.b, call.c) = -1 THEN 0
                             ELSE ExactQuotient(call.a, call.b, call.c))
        /\ (call.c # 0 /\ call.b = call.c) => call.result = call.a
        /\ (call.c # 0 /\ call.a = call.c) => call.result = call.b

\* A call whose quotient exceeds u64::MAX (the product needs more than a
\* word, and c = 1) and that returned 0
C3_Witness ==
    /\ call.fn = "mul_div"
    /\ call.c = 1 /\ call.a > 1 /\ call.b > WordMax \div call.a
    /\ call.result = 0

\* Whether the u128 quotient of mul_div(a, b, c) fits u64
QuotientFits(a, b, c) == c # 0 /\ WideQuot(a, b, c) <= WordMax

\* A round trip of an amount through its value and back, with a price above
\* 0 and no overflow in either conversion
RoundTrip ==
    /\ call.fn = "usd_value_to_amount"
    /\ call.price > 0
    /\ ~Pow10Ovf(call.decimals)
    /\ QuotientFits(call.amount, call.price, Pow10(call.decimals))
    /\ QuotientFits(call.worth, Pow10(call.decimals), call.price)

\* ceil(a / b), for b > 0
CeilDiv(a, b) == (a + b - 1) \div b

\* C4 (as stated): a round trip differs from the amount by at most 1 unit
C4_WithinOneUnit ==
    RoundTrip => /\ call.result - call.amount <= 1
                 /\ call.amount - call.result <= 1

\* C4 (amended): a round trip never exceeds the amount, and falls short of
\* it by at most ceil(10^decimals / price) units: by at most 1 unit when
\* price >= 10^decimals, by more when the price is lower.
C4_RoundTripDrift ==
    RoundTrip =>
        /\ call.result <= call.amount
        /\ call.amount - call.result <= CeilDiv(Pow10(call.decimals), call.price)
        /\ call.price >= Pow10(call.decimals) => call.amount - call.result <= 1

\* A round trip that lost more than 1 unit
C4_Witness ==
    /\ RoundTrip
    /\ call.price < Pow10(call.decimals)
    /\ call.amount - call.result > 1

\* The request of the call with another input amount, and what quote()
\* computes for it on the same instance
WithAmount(x) == [quote_params EXCEPT !.in_amount = x]
QuoteOf(x) == quote(fund_state, token_list, curve_data, WithAmount(x))

\* C5: on one instance and for one pair of tokens, when quote() returns a
\* Quote for the input amounts x and y with x <= y, the out_amount for x is
\* at most the out_amount for y.  Only the calls in which no u64 operation
\* overflows are compared, so that every build returns these Quotes.
C5_Monotone ==
    (Quoted /\ ~quote_result.ovf) =>
        \A x \in InAmounts :
            (x <= quote_params.in_amount /\ QuoteOf(x).kind = "Quote" /\ ~QuoteOf(x).ovf)
                => QuoteOf(x).out_amount <= quote_result.out_amount

\* A call of compute_value_of_sold_token that has just sold a segment
SoldSegment ==
    /\ loop.fn = "compute_value_of_sold_token"
    /\ loop.s.step > 0
    /\ ~loop.s.skipped
    /\ ~loop.s.ovf

\* The holding when that segment began
SegmentStart == loop.s.current_amount - loop.s.amount_in_interval

\* The value of a part of that segment, and its fee at a tier
PartValue(amount) == amount_to_usd_value(amount, loop.token_settings.decimals, loop.s.current_price)
PartFee(amount, bps) == mul_div(PartValue(amount), bps, BPS_DIVIDER)

\* The curve of the call has a single point, at threshold T
SinglePointAt(T) == /\ T > 0
                    /\ loop.curve.amount[0] = T
                    /\ \A k \in Points : k > 0 => loop.curve.amount[k] = 0

\* C6 (as stated): with a single curve point at threshold T and a holding
\* at its target, selling exactly T units pays the before-target fee on the
\* whole amount: the part after the target is 0.
C6_BeforeTierUpToThreshold ==
    ( /\ loop.fn = "compute_value_of_sold_token"
      /\ loop.s.done
      /\ SinglePointAt(loop.amount)
      /\ loop.start_amount = loop.target_amount )
    => /\ loop.s.amount_after_tw = 0
       /\ loop.s.fees = PartFee(loop.amount, loop.token_settings.token_swap_fee_before_tw_bps)

\* C6 (amended): the tiers split at the target of the holding, not at a
\* curve threshold.  A segment sold from a holding at or above its target
\* pays the after-target fee on its whole amount, whether T units or T + 1
\* are sold; a segment sold from a holding below its target pays the
\* before-target fee on the part that brings the holding up to the target
\* and the after-target fee on the rest.
C6_TiersSplitAtTarget ==
    SoldSegment =>
        /\ SegmentStart >= loop.target_amount =>
              /\ loop.s.amount_before_tw = 0
              /\ loop.s.amount_after_tw = loop.s.amount_in_interval
              /\ loop.s.fees = PartFee(loop.s.amount_in_interval,
                                       loop.token_settings.token_swap_fee_after_tw_bps)
        /\ SegmentStart < loop.target_amount =>
              /\ loop.s.amount_before_tw
                   = Min(loop.s.amount_in_interval, loop.target_amount - SegmentStart)
              /\ loop.s.amount_after_tw
                   = loop.s.amount_in_interval - loop.s.amount_before_tw
              /\ loop.s.fees
                   = PartFee(loop.s.amount_before_tw,
                             loop.token_settings.token_swap_fee_before_tw_bps)
                     + PartFee(loop.s.amount_after_tw,
                               loop.token_settings.token_swap_fee_after_tw_bps)

\* Exactly T units sold from a holding at its target, single point at T:
\* the whole amount paid the after-target fee, which is more than the
\* before-target fee would have been
C6_Witness ==
    /\ SoldSegment
    /\ loop.s.done
    /\ SinglePointAt(loop.amount)
    /\ loop.start_amount = loop.target_amount
    /\ loop.s.amount_after_tw = loop.amount
    /\ loop.s.fees > PartFee(loop.amount, loop.token_settings.token_swap_fee_before_tw_bps)

\* The call passed the checks of lines 301-350: liquidity provision is on,
\* both tokens are listed and found in the composition, every oracle of the
\* fund is live
PassedAssetAndOracleChecks ==
    /\ Returned
    /\ fund_state.lp_disabled # FUND_LP_DISABLED
    /\ FromId # -1 /\ ToId # -1
    /\ Ctx.from_token_index # -1 /\ Ctx.to_token_index # -1
    /\ ~FundWorth(fund_state, token_list, 0, 0, FALSE).offline

\* The projected weight of the input token is above its allowed maximum
SellerAboveMaximum ==
    quote_result.weights.from_new_weight > quote_result.weights.allowed_from_target_weight

\* C7: past the asset and oracle checks, a request whose input token is
\* token 0 and whose output token has target weight 0 returns a Quote, even
\* when the projected weight of the input token is above its allowed
\* maximum; a request whose output token has a target weight other than 0
\* and whose projected input weight is above the allowed maximum is
\* rejected with the seller-weight error.
C7_DustException ==
    PassedAssetAndOracleChecks =>
        /\ (FromId = 0 /\ fund_state.target_weight[Ctx.to_token_index] = 0) => Quoted
        /\ (fund_state.target_weight[Ctx.to_token_index] # 0 /\ SellerAboveMaximum)
              => (quote_result.kind = "Err" /\ quote_result.err = ErrFromWeight)

\* A Quote for token 0 sold into a token of target weight 0, with the
\* projected weight of token 0 above its allowed maximum
C7_Witness ==
    /\ PassedAssetAndOracleChecks
    /\ Quoted /\ ~quote_result.ovf
    /\ FromId = 0
    /\ fund_state.target_weight[Ctx.to_token_index] = 0
    /\ quote_params.in_amount > 0
    /\ SellerAboveMaximum

\* Token id is one of the tokens the fund holds: one of the first
\* num_of_tokens entries of current_comp_token
Held(id) == \E i \in 0..(fund_state.num_of_tokens - 1) : fund_state.current_comp_token[i] = id

\* C8: past the checks before it, quote() rejects with a not-in-composition
\* error whenever the input or the output token is not among the first
\* num_of_tokens entries of current_comp_token.
C8_HeldTokensOnly ==
    ( /\ Returned
      /\ fund_state.lp_disabled # FUND_LP_DISABLED
      /\ FromId # -1 /\ ToId # -1
      /\ (~Held(FromId) \/ ~Held(ToId)) )
    => /\ quote_result.kind = "Err"
       /\ quote_result.err \in {ErrFromNotInComp, ErrToNotInComp}

\* Token id is in some slot of current_comp_token
InSomeSlot(id) == \E s \in Slots : fund_state.current_comp_token[s] = id

\* The first check of quote() that fails on the instance and the request,
\* in the order of the claim; "none" when every check passes
FirstFailedCheck ==
    IF fund_state.lp_disabled = FUND_LP_DISABLED THEN ErrLpDisabled
    ELSE IF FromId = -1 THEN ErrFromNotSupported
    ELSE IF ToId = -1 THEN ErrToNotSupported
    ELSE IF ~InSomeSlot(FromId) THEN ErrFromNotInComp
    ELSE IF ~InSomeSlot(ToId) THEN ErrToNotInComp
    ELSE IF \E i \in 0..(fund_state.num_of_tokens - 1) :
              token_list.list[fund_state.current_comp_token[i]].oracle_price.oracle_live = 0
    THEN ErrOracle
    ELSE IF SellerAboveMaximum
            /\ ~(FromId = 0 /\ fund_state.target_weight[Ctx.to_token_index] = 0)
    THEN ErrFromWeight
    ELSE IF quote_result.weights.to_new_weight < quote_result.weights.allowed_to_target_weight
    THEN ErrToWeight
    ELSE "none"

\* C9: a call that returns returns the rejection of the first check that
\* fails, in the order liquidity provision disabled, input token not
\* listed, output token not listed, input token not in the composition,
\* output token not in the composition, an oracle of the fund not live,
\* seller weight, buyer weight; and a Quote only when none fails.
C9_CheckOrder ==
    Returned =>
        IF FirstFailedCheck = "none" THEN Quoted
        ELSE quote_result.kind = "Err" /\ quote_result.err = FirstFailedCheck

\* A rejection for an oracle that is not live, of a token other than the
\* two of the request, in a fund whose weights would also have been checked
C9_Witness ==
    /\ Returned
    /\ quote_result.kind = "Err" /\ quote_result.err = ErrOracle
    /\ token_list.list[FromId].oracle_price.oracle_live = 1
    /\ token_list.list[ToId].oracle_price.oracle_live = 1

\* C10: no u64 operation of a call of quote() overflows or underflows, and
\* the call ends in a Quote or a named rejection.
C10_NoOverflow ==
    quote_result # NoQuote => (Returned /\ ~quote_result.ovf)

\* A Quote for 10 units of A into B, from a fund with each token at its target
TenUnitsOfA ==
    /\ Quoted
    /\ \E n \in SeedPools : fund_state = SeedFundState(n)
    /\ quote_params.input_mint = MintOf(1)
    /\ quote_params.output_mint = MintOf(2)
    /\ quote_params.in_amount = 10 * UnitA

\* C11 (as stated): 10 units of A into B pay out 200.00 units of B less a
\* fee between 0.1% and 0.3% of them, and the fee rate of the Quote is
\* between 10 and 30 basis points.
C11_FeeWithinOneTier ==
    TenUnitsOfA =>
        /\ quote_result.out_amount + quote_result.fee_amount = 200 * UnitB
        /\ quote_result.fee_amount * 1000 >= 1 * (200 * UnitB)
        /\ quote_result.fee_amount * 1000 <= 3 * (200 * UnitB)
        /\ quote_result.fee_bps \in 10..30

\* C11 (amended): when the trade passes the weight checks, 10 units of A
\* into B pay out 200.00 units of B less a fee of about 0.6% of them (more
\* than 0.3%): a holding at its target is charged the tier after the target,
\* 30 basis points, once when A is sold and once more when B is bought.  The
\* fee rate of the Quote is the fee in millionths of the fair amount, about
\* 6000.  The same holds of every amount traded between the two tokens.
C11_FeeOnBothLegs ==
    ( /\ Quoted
      /\ \E n \in SeedPools : fund_state = SeedFundState(n) )
    => /\ quote_result.out_amount + quote_result.fee_amount = SpotAmount(Ctx)
       /\ SpotAmount(Ctx) = FairAmount(Ctx)
       /\ quote_result.fee_amount * 1000 > 3 * SpotAmount(Ctx)
       /\ quote_result.fee_amount * 10000 >= 59 * SpotAmount(Ctx)
       /\ quote_result.fee_amount * 10000 <= 60 * SpotAmount(Ctx)
       /\ quote_result.fee_bps \in 5900..6000
       /\ TenUnitsOfA => /\ SpotAmount(Ctx) = 200 * UnitB
                         /\ quote_result.out_amount = 200 * UnitB - (12 * UnitB) \div 10

\* 10 units of A paid out as 198.80 units of B, the fee being 1.20 units
C11_Witness ==
    /\ TenUnitsOfA
    /\ ~quote_result.ovf
    /\ quote_result.out_amount = 19880
    /\ quote_result.fee_amount = 120
    /\ quote_result.fee_bps = 6000

----------------------------------------------------------------------------
\* C12: a call of update() that returned an error has left fund_state,
\* token_list and curve_data exactly as they were before the call, so that
\* quote() never runs on a mix of old and new accounts.
C12_ErrorLeavesSnapshot ==
    (call.fn = "update" /\ call.result = "Err") => Snapshot = call.before

\* What the holding of the input token is worth at the average price once
\* the input amount, inflated by 1%, is added to it: the quotient in full,
\* held up to u64::MAX, where amount_to_usd_value narrows it
ProjectedFromWorth ==
    Min(WideQuot(FromHolding(Ctx) + (quote_params.in_amount * 101) \div 100,
                 FromSettings(Ctx).oracle_price.avg_price,
                 Pow10(FromSettings(Ctx).decimals)),
        WordMax)

\* The least the weight of the input token can be on the projection: its
\* worth against the worth of the fund before the swap with the whole of
\* its projected worth added and nothing taken out
ProjectedFromWeight ==
    WideQuot(ProjectedFromWorth, WEIGHT_MULTIPLIER,
             FundWorth(fund_state, token_list, 0, 0, FALSE).fund_worth + ProjectedFromWorth)

\* C13: quote() returns a Quote only if, with the sold amount inflated by
\* 1% added to the input holding, the weight of the input token in the fund
\* is at most its target weight widened by rebalance_threshold *
\* lp_offset_threshold and capped at WEIGHT_MULTIPLIER, unless the dust
\* exception applies.  Only Quotes for two tokens the fund holds, computed
\* without a u64 overflow, are read.
C13_WeightBand ==
    (Quoted /\ ~quote_result.ovf /\ Held(FromId) /\ Held(ToId) /\ ~RemovingDust(Ctx))
        => ProjectedFromWeight <= AllowedFromTargetWeight(fund_state, Ctx.from_token_index)

----------------------------------------------------------------------------
\* The lowest and the highest of a price and the prices of the first k
\* points of a curve
RECURSIVE LowestPrice(_, _, _)
LowestPrice(curve, price, k) ==
    IF k = 0 THEN price
    ELSE Min(LowestPrice(curve, price, k - 1), curve.price[k - 1])
RECURSIVE HighestPrice(_, _, _)
HighestPrice(curve, price, k) ==
    IF k = 0 THEN price
    ELSE IF HighestPrice(curve, price, k - 1) >= curve.price[k - 1]
    THEN HighestPrice(curve, price, k - 1) ELSE curve.price[k - 1]

\* The points of the curve the loop has been through
PointsSeen == Min(loop.s.step, NUM_OF_POINTS_IN_CURVE_DATA)

UsesCurve == loop.token_settings.use_curve_data = USE_CURVE_DATA

\* C14: in compute_value_of_sold_token the price after any number of
\* segments is never above the oracle's sell_price; with use_curve_data off
\* it is the sell_price; with the flag on it is the lowest of the sell_price
\* and the curve prices of the segments gone through, so that it never
\* rises and moves only to a curve price below it.  In
\* compute_amount_of_bought_token it is never below the buy_price, is the
\* buy_price with the flag off, and is the highest of the buy_price and
\* the curve prices gone through with the flag on.
C14_PriceMovesAgainstTrader ==
    /\ loop.fn = "compute_value_of_sold_token" =>
          /\ loop.s.current_price <= loop.price.sell_price
          /\ ~UsesCurve => loop.s.current_price = loop.price.sell_price
          /\ UsesCurve =>
                loop.s.current_price = LowestPrice(loop.curve, loop.price.sell_price, PointsSeen)
    /\ loop.fn = "compute_amount_of_bought_token" =>
          /\ loop.s.current_price >= loop.price.buy_price
          /\ ~UsesCurve => loop.s.current_price = loop.price.buy_price
          /\ UsesCurve =>
                loop.s.current_price = HighestPrice(loop.curve, loop.price.buy_price, PointsSeen)

\* A sale whose price went down twice, to the price of the curve's second
\* point, while selling
C14_Witness ==
    /\ loop.fn = "compute_value_of_sold_token"
    /\ UsesCurve
    /\ loop.s.step = 2 /\ ~loop.s.skipped /\ loop.s.amount_in_interval > 0
    /\ loop.s.current_price = loop.curve.price[1]
    /\ loop.curve.price[1] < loop.curve.price[0]
    /\ loop.curve.price[0] < loop.price.sell_price
    /\ loop.curve.price[1] > 0

----------------------------------------------------------------------------
\* The amounts of the first k points of a curve, summed
RECURSIVE AmountsUpTo(_, _)
AmountsUpTo(curve, k) ==
    IF k = 0 THEN 0 ELSE AmountsUpTo(curve, k - 1) + curve.amount[k - 1]

\* C15: compute_value_of_sold_token goes through at most
\* NUM_OF_POINTS_IN_CURVE_DATA + 1 segments; the amounts its segments
\* consumed sum to the requested amount less amount_left, and amount_left is
\* 0 when it returns, whatever the start amount, the target and the curve.
C15_SellsWholeAmount ==
    loop.fn = "compute_value_of_sold_token" =>
        /\ loop.s.step <= NUM_OF_POINTS_IN_CURVE_DATA + 1
        /\ loop.s.amount_left >= 0
        /\ loop.s.current_amount - loop.start_amount = loop.amount - loop.s.amount_left
        /\ loop.s.done => loop.s.amount_left = 0

\* A sale that began further above the target than the whole curve covers:
\* every point was skipped, and the last segment, the offset that was left
\* set aside, took the whole amount
C15_Witness ==
    /\ loop.fn = "compute_value_of_sold_token"
    /\ loop.s.done /\ ~loop.s.ovf
    /\ loop.s.step = NUM_OF_POINTS_IN_CURVE_DATA + 1
    /\ loop.start_amount - loop.target_amount
         > AmountsUpTo(loop.curve, NUM_OF_POINTS_IN_CURVE_DATA)
    /\ loop.amount > 0
    /\ loop.amount < loop.start_amount - loop.target_amount
                       - AmountsUpTo(loop.curve, NUM_OF_POINTS_IN_CURVE_DATA)
    /\ ~loop.s.skipped
    /\ loop.s.amount_in_interval = loop.amount
    /\ loop.s.amount_left = 0

----------------------------------------------------------------------------
\* C16: compute_amount_of_bought_token spends the whole budget: when it
\* returns without a u64 overflow, value_left is 0, so that every unit of
\* the value it was given went into output or fees.
C16_SpendsWholeBudget ==
    (loop.fn = "compute_amount_of_bought_token" /\ loop.s.done /\ ~loop.s.ovf)
        => loop.s.value_left = 0

====
